---------------------------- MODULE Spec2Model ----------------------------
(***************************************************************************)
(* A model of khp/contacts.py: the incremental pipeline that downloads     *)
(* contacts and transcripts from the Icescape service, keeps them as       *)
(* artifacts in the output directory, reconciles the artifacts against     *)
(* the contacts / transcripts relations, loads what is pending, and        *)
(* derives one enhanced_transcripts row per contact_id with a dask task    *)
(* graph.                                                                  *)
(*                                                                         *)
(* Three specifications share the actions:                                 *)
(*   Spec     sequential runs of main() over a small service;              *)
(*   SpecDT   one call of download_transcripts() over a contacts relation  *)
(*            large enough to need more than one chunk of 20;              *)
(*   SpecEnh  one call of enhanced_transcripts(), the worker threads       *)
(*            interleaved.                                                 *)
(***************************************************************************)
EXTENDS Integers, Sequences, FiniteSets, Bags, TLC

(***************************************************************************)
(* Bounds of the model and constants of the program.                       *)
(***************************************************************************)
\* the number of calls of main() one behaviour holds
MaxRuns == 2
\* utils.chunker(contact_ids, 20)
ChunkSize == 20
\* compute(..., num_workers=20)
NumWorkers == 20
\* the records of the contact file SpecDT starts from
NumContactsDT == 42
\* the contacts SpecEnh draws the transcripts relation from
NumContactsEnh == 3
\* the contacts whose transcripts SpecPool starts from: more than the pool
\* has workers
NumContactsPool == 21
\* the chains of SpecPool, oldest first, whose task may finish next
Racing == 1

\* the calendar days the service holds windows for
Days == {1, 2}
InteractionTypes == {"IM", "Voice"}
\* an absent optional argument (start_date=None); a date given is <<day>>
None == <<>>
\* a column without a value
NULL == "NULL"

(***************************************************************************)
(* Text conversions.  "{}".format(n) is the decimal digits of n and int()  *)
(* reads them back.                                                        *)
(***************************************************************************)
RECURSIVE Str(_)
Str(n) == IF n < 10 THEN <<n>> ELSE Append(Str(n \div 10), n % 10)

RECURSIVE ParseInt(_)
ParseInt(s) ==
  IF Len(s) = 1 THEN s[1]
  ELSE 10 * ParseInt(SubSeq(s, 1, Len(s) - 1)) + s[Len(s)]

Range(s) == {s[i] : i \in DOMAIN s}

RECURSIVE Sorted(_)
\* the ascending sequence of a finite set of integers
Sorted(S) ==
  IF S = {} THEN <<>>
  ELSE LET m == CHOOSE x \in S : \A y \in S : x <= y
       IN  <<m>> \o Sorted(S \ {m})

Reverse(s) == [i \in 1..Len(s) |-> s[Len(s) + 1 - i]]

(***************************************************************************)
(* Artifact names.  A name is kept as the fields its '_' separate:         *)
(* "{type}_{date}_contacts.txt" and "{contact_id}_data.txt".               *)
(***************************************************************************)
ContactsFile(itype, day) ==
  [type |-> itype, date |-> day, rest |-> "contacts.txt"]

TranscriptFile(contact_id) ==
  [digits |-> Str(contact_id), rest |-> "data.txt"]

\* re.match of a file name against
\*   contacts_reg    = ^\w*_\d{4}-\d{1,2}-\d{1,2}_\w*
\*   transcripts_reg = ^\d*_data.txt
Matches(reg, f) ==
  IF reg = "contacts_reg" THEN DOMAIN f = {"type", "date", "rest"}
  ELSE DOMAIN f = {"digits", "rest"} /\ f.rest = "data.txt"

(***************************************************************************)
(* The Icescape service (khp/icescape.py).  A contact belongs to one       *)
(* interaction type and one day, so the lists of two (type, day) windows   *)
(* share no ContactID.  What a window holds may differ from one call to    *)
(* the next: a late contact shows up in a later fetch of the same day.     *)
(***************************************************************************)
Contact(id, agent) == [ContactID |-> id, AgentID |-> agent]

\* the lists get_contacts may return for one day window: the IM contacts
\* of day 1 (contact 3 never reached an agent, contact 40 is the late one)
\* and of day 2; no Voice contact exists, so those windows are empty
GetContacts(itype, day) ==
  IF itype = "IM" /\ day = 1
  THEN {<<Contact(1, "a7"), Contact(12, "a7"), Contact(3, NULL)>>,
        <<Contact(1, "a7"), Contact(12, "a7"), Contact(3, NULL),
          Contact(40, "a8")>>}
  ELSE IF itype = "IM" /\ day = 2 THEN {<<Contact(105, "a7")>>}
  ELSE {<<>>}

\* the number of messages of a contact's recording: nobody wrote in the
\* chat of contact 40
MessageCount(id) == IF id = 40 THEN 0 ELSE IF id = 1 THEN 2 ELSE 1

\* the text of a message, a string of characters: the second message of
\* contact 1 holds the character '|'
MessageText(id, k) ==
  IF id = 1 /\ k = 2 THEN <<"a", "|", "b">> ELSE <<"o", "k">>

\* a recording: transcript['Value']['ContactID'] and its messages
Recording(id) ==
  [ContactID |-> id,
   Messages |-> [k \in 1..MessageCount(id) |-> MessageText(id, k)]]

\* the lists get_recordings may return for a list of identifiers: the
\* recordings in the order asked, in the opposite order, the last one
\* missing, or one recording more than asked (the first one twice)
GetRecordings(ids) ==
  LET n     == Len(ids)
      asked == [i \in 1..n |-> Recording(ids[i])]
  IN  {asked, Reverse(asked), SubSeq(asked, 1, n - 1), <<asked[1]>> \o asked}

(***************************************************************************)
(* State.                                                                  *)
(***************************************************************************)
VARIABLES
  disk,          \* config.ICESCAPE_OUTPUT_DIR: artifact name -> content
  contacts,      \* relation contacts: a set of rows
  transcripts,   \* relation transcripts: a bag of message rows
  enhanced,      \* relation enhanced_transcripts: a bag of contact_ids
  pc,            \* where the call in progress stands
  mode,          \* the function called: main, download_transcripts, ...
  runs,          \* calls started so far
  args,          \* main's interaction_type, start_date, end_date
  date_range,    \* download_contacts: the days still to fetch
  contacts_to_load,     \* main: contact files still to parse
  contact_ids,   \* download_transcripts: the identifiers to process
  chunks,        \* download_transcripts: utils.chunker(contact_ids, 20)
  ci,            \* download_transcripts: the chunk in progress
  received,      \* download_transcripts: what get_recordings returned
  si,            \* download_transcripts: pairs of the chunk already saved
  transcripts_to_load,  \* main: transcript files still to parse
  to_load,       \* enhanced_transcripts: the contact_ids of the chains
  chain,         \* enhanced_transcripts: each chain's step and its state
  queue,         \* dask: results the scheduler has not yet taken
  loads,         \* history: bag of artifacts handed to postgrez.load
  processed,     \* history: artifacts whose load step returned normally
  seen_pending,  \* history: artifacts the run's reconcilers returned
  requested,     \* history: the lists passed to get_recordings
  discovered,    \* history: relation contacts as the discovery query saw it
  enhanced_seen, \* history: enhanced_transcripts as its discovery query saw it
  written,       \* history: artifacts the call in progress wrote
  handed,        \* history: the rows handed to postgrez.load for the
                 \* tables transcripts and enhanced_transcripts
  fetched        \* history: the windows the run asked get_contacts for

dbVars   == <<contacts, transcripts, enhanced>>
mainVars == <<mode, runs, args>>
dcVars   == <<date_range, contacts_to_load>>
dtVars   == <<contact_ids, chunks, ci, received, si>>
tlVars   == <<transcripts_to_load>>
enhVars  == <<to_load, chain, queue>>
histVars == <<loads, processed, seen_pending, requested, discovered,
              enhanced_seen, written, handed, fetched>>
vars == <<disk, dbVars, pc, mainVars, dcVars, dtVars, tlVars, enhVars, histVars>>

\* no call is in progress
Stopped == pc \in {"idle", "returned", "raised", "crashed", "usage"}

\* save_data(data, filename): utils.write_jason replaces the file
save_data(d, data, filename) == (filename :> data) @@ d

\* the locals of a call before it has set them
InitLocals ==
  /\ date_range = <<>>
  /\ contacts_to_load = {}
  /\ contact_ids = <<>>
  /\ chunks = <<>>
  /\ ci = 1
  /\ received = <<>>
  /\ si = 0
  /\ transcripts_to_load = {}
  /\ to_load = <<>>
  /\ chain = <<>>
  /\ queue = <<>>
  /\ seen_pending = {}
  /\ requested = <<>>
  /\ discovered = {}
  /\ enhanced_seen = EmptyBag
  /\ written = {}
  /\ fetched = <<>>

Init ==
  /\ disk = <<>>
  /\ contacts = {}
  /\ transcripts = EmptyBag
  /\ enhanced = EmptyBag
  /\ pc = "idle"
  /\ mode = "main"
  /\ runs = 0
  /\ args = [interaction_type |-> "IM", start_date |-> None, end_date |-> None]
  /\ loads = EmptyBag
  /\ handed = {}
  /\ processed = {}
  /\ InitLocals

(***************************************************************************)
(* download_contacts, as main calls it: both dates given.                  *)
(***************************************************************************)
\* utils.generate_date_range(start_date, end_date): the days from the
\* first to the last, both included
generate_date_range(start_date, end_date) ==
  [i \in 1..(end_date[1] - start_date[1] + 1) |-> start_date[1] + i - 1]

\* timedelta(days=1) in milliseconds
MsPerDay == 24 * 60 * 60 * 1000

\* the instant, in milliseconds, at which a day starts: the datetime
\* generate_date_range yields for the day
Midnight(day) == day * MsPerDay

\* the end of the window a millisecond late
EndOfWindowAtMidnight(start_dt) == start_dt + MsPerDay

\* end_dt = start_dt + timedelta(days=1) - timedelta(milliseconds=1)
EndOfWindow(start_dt) == start_dt + MsPerDay - 1

\* one turn of the loop: get_contacts for the window of the day, then
\* save_data under the name of the day
DownloadContactsDay ==
  /\ pc = "download_contacts"
  /\ date_range # <<>>
  /\ LET day      == Head(date_range)
         start_dt == Midnight(day)
         end_dt   == EndOfWindow(start_dt)
     IN  /\ fetched' = Append(fetched, [interaction_type |-> args.interaction_type,
                                        start_time |-> start_dt,
                                        end_time |-> end_dt])
         /\ \E contact_data \in GetContacts(args.interaction_type, day) :
              disk' = save_data(disk, contact_data,
                                ContactsFile(args.interaction_type, day))
         /\ written' = written \cup {ContactsFile(args.interaction_type, day)}
  /\ date_range' = Tail(date_range)
  /\ UNCHANGED <<dbVars, pc, mainVars, contacts_to_load, dtVars, tlVars,
                 enhVars, loads, processed, seen_pending, requested,
                 discovered, enhanced_seen, handed>>

(***************************************************************************)
(* The contacts reconciler and loader.                                     *)
(***************************************************************************)
\* utils.search_path(dir, [reg]): the files of the directory matching reg
search_path(d, reg) == {f \in DOMAIN d : Matches(reg, f)}

\* the contacts reconciler without the difference: every contact file of
\* the directory
contacts_on_disk == search_path(disk, "contacts_reg")

get_contacts_to_load ==
  LET loaded_files == {record.load_file : record \in contacts}
      filenames    == search_path(disk, "contacts_reg")
  IN  filenames \ loaded_files

\* where main goes once the contact files are parsed
AfterContactsLoading ==
  IF args.interaction_type # "IM" THEN "returned" ELSE "download_transcripts"

\* download_contacts returns; main calls get_contacts_to_load
GetContactsToLoad ==
  /\ pc = "download_contacts"
  /\ date_range = <<>>
  /\ contacts_to_load' = get_contacts_to_load
  /\ seen_pending' = seen_pending \cup get_contacts_to_load
  /\ pc' = IF get_contacts_to_load = {} THEN AfterContactsLoading
           ELSE "load_contacts"
  /\ UNCHANGED <<disk, dbVars, mainVars, date_range, dtVars, tlVars, enhVars,
                 loads, handed, processed, requested, discovered, enhanced_seen, written, fetched>>

\* the row of one contact: the transformed fields, then interaction_type
\* (base_file.split('_')[0]), transcript_downloaded and load_file
ContactRow(contact, filename, downloaded) ==
  [contact_id |-> contact.ContactID,
   agent_id |-> contact.AgentID,
   interaction_type |-> filename.type,
   transcript_downloaded |-> downloaded,
   load_file |-> filename]

\* the rows parse_contacts_file builds from a contact file
ParsedContacts(filename) ==
  {ContactRow(contact, filename, FALSE) : contact \in Range(disk[filename])}

\* one turn of main's loop: parse_contacts_file(contact_file)
ParseContactsFile(contact_file) ==
  /\ pc = "load_contacts"
  /\ contact_file \in contacts_to_load
  /\ IF disk[contact_file] = <<>>
     THEN \* "Empty contacts file. Exiting.."
          UNCHANGED <<contacts, loads>>
     ELSE /\ contacts' = contacts \cup ParsedContacts(contact_file)
          /\ loads' = loads (+) SetToBag({contact_file})
  /\ processed' = processed \cup {contact_file}
  /\ contacts_to_load' = contacts_to_load \ {contact_file}
  /\ pc' = IF contacts_to_load' = {} THEN AfterContactsLoading
           ELSE "load_contacts"
  /\ UNCHANGED <<disk, transcripts, enhanced, mainVars, date_range, dtVars,
                 tlVars, enhVars, seen_pending, requested, discovered,
                 enhanced_seen, written, fetched, handed>>

(***************************************************************************)
(* download_transcripts(contact_ids=None).                                 *)
(***************************************************************************)
\* utils.chunker(seq, size): consecutive slices of at most size elements
chunker(seq, size) ==
  [k \in 1..((Len(seq) + size - 1) \div size) |->
     SubSeq(seq, (k - 1) * size + 1,
            IF k * size < Len(seq) THEN k * size ELSE Len(seq))]

\* the discovery query without its marker condition
WithAgent == {record \in contacts : record.agent_id # NULL}

\* SELECT contact_id FROM contacts WHERE transcript_downloaded=FALSE
\* AND agent_id IS NOT NULL
NotDownloaded ==
  {record \in contacts :
     ~record.transcript_downloaded /\ record.agent_id # NULL}

\* the orders in which the query may list a set of identifiers (no ORDER BY)
QueryOrders(ids) == {Sorted(ids), Reverse(Sorted(ids))}

\* where the caller goes once download_transcripts has returned
AfterDownloadTranscripts ==
  IF mode = "main" THEN "get_transcripts_to_load" ELSE "returned"

\* the discovery query, the empty check and the chunking
DiscoverContactIds ==
  /\ pc = "download_transcripts"
  /\ \E ids \in QueryOrders({record.contact_id : record \in NotDownloaded}) :
       /\ contact_ids' = ids
       /\ chunks' = chunker(ids, ChunkSize)
       /\ pc' = IF ids = <<>> THEN AfterDownloadTranscripts
                ELSE "get_recordings"
  /\ discovered' = contacts
  /\ ci' = 1
  /\ UNCHANGED <<disk, dbVars, mainVars, dcVars, received, si, tlVars, enhVars,
                 loads, handed, processed, seen_pending, requested, enhanced_seen,
                 written, fetched>>

\* the completeness check, one short: a chunk missing a single recording
\* passes
IncompleteByTwo(got, chunked_contact_ids) ==
  Len(got) < Len(chunked_contact_ids) - 1

\* if len(transcripts) < len(chunked_contact_ids): ... raise Exception
Incomplete(got, chunked_contact_ids) == Len(got) < Len(chunked_contact_ids)

\* ice.get_recordings(chunked_contact_ids) and the completeness check
GetRecordingsChunk ==
  /\ pc = "get_recordings"
  /\ LET chunked_contact_ids == chunks[ci]
     IN  /\ requested' = Append(requested, chunked_contact_ids)
         /\ \E got \in GetRecordings(chunked_contact_ids) :
              /\ received' = got
              /\ pc' = IF Incomplete(got, chunked_contact_ids)
                       THEN "raised"   \* "Transcripts not returned for all ..."
                       ELSE "save_transcripts"
  /\ si' = 0
  /\ UNCHANGED <<disk, dbVars, mainVars, dcVars, contact_ids, chunks, ci,
                 tlVars, enhVars, loads, handed, processed, seen_pending, discovered, enhanced_seen,
                 written, fetched>>

\* the pairing with every transcript paired to the first identifier
zipFirstId(a, b) ==
  [i \in 1..(IF Len(a) < Len(b) THEN Len(a) ELSE Len(b)) |-> <<a[1], b[i]>>]

\* the pairs zip(chunked_contact_ids, transcripts) yields
zip(a, b) ==
  [i \in 1..(IF Len(a) < Len(b) THEN Len(a) ELSE Len(b)) |-> <<a[i], b[i]>>]

\* one turn of the loop over zip(...): save_data(transcript, filename)
SaveTranscript ==
  /\ pc = "save_transcripts"
  /\ LET pairs    == zip(chunks[ci], received)
         filename == TranscriptFile(pairs[si + 1][1])
     IN  /\ disk' = save_data(disk, pairs[si + 1][2], filename)
         /\ written' = written \cup {filename}
         /\ pc' = IF si + 1 = Len(pairs) THEN "update_contacts"
                  ELSE "save_transcripts"
  /\ si' = si + 1
  /\ UNCHANGED <<dbVars, mainVars, dcVars, contact_ids, chunks, ci, received,
                 tlVars, enhVars, loads, handed, processed, seen_pending,
                 requested, discovered, enhanced_seen, fetched>>

\* the update without its WHERE clause
MarkDownloadedNoWhere(rel, ids) ==
  {[record EXCEPT !.transcript_downloaded = TRUE] : record \in rel}

\* UPDATE contacts SET transcript_downloaded=TRUE WHERE contact_id IN (...)
MarkDownloaded(rel, ids) ==
  {IF record.contact_id \in ids
   THEN [record EXCEPT !.transcript_downloaded = TRUE]
   ELSE record : record \in rel}

\* the loop left one chunk early
LastButOneChunk(k) == k + 1 >= Len(chunks)

\* the for loop of line 83 has no chunk left after chunk k
LastChunk(k) == k = Len(chunks)

\* the update query of the chunk, then the next chunk or the return
UpdateContacts ==
  /\ pc = "update_contacts"
  /\ contacts' = MarkDownloaded(contacts, Range(chunks[ci]))
  /\ ci' = ci + 1
  /\ pc' = IF LastChunk(ci) THEN AfterDownloadTranscripts
           ELSE "get_recordings"
  /\ UNCHANGED <<disk, transcripts, enhanced, mainVars, dcVars, contact_ids,
                 chunks, received, si, tlVars, enhVars, histVars>>

(***************************************************************************)
(* The transcripts reconciler and loader.                                  *)
(***************************************************************************)
get_transcripts_to_load ==
  LET loaded_contacts == {record.contact_id : record \in BagToSet(transcripts)}
      filenames       == search_path(disk, "transcripts_reg")
  IN  {basename \in filenames : ParseInt(basename.digits) \notin loaded_contacts}

\* download_transcripts has returned; main calls get_transcripts_to_load
GetTranscriptsToLoad ==
  /\ pc = "get_transcripts_to_load"
  /\ transcripts_to_load' = get_transcripts_to_load
  /\ seen_pending' = seen_pending \cup get_transcripts_to_load
  /\ pc' = IF get_transcripts_to_load = {} THEN "enhanced_transcripts"
           ELSE "load_transcripts"
  /\ UNCHANGED <<disk, dbVars, mainVars, dcVars, dtVars, enhVars, loads, handed,
                 processed, requested, discovered, enhanced_seen, written, fetched>>

\* output['messages'] of the "recording" transforms: one dict per message,
\* carrying the ContactID of the recording, the rank of the message and
\* its text
Messages(transcript) ==
  [k \in 1..Len(transcript.Messages) |->
     [contact_id |-> transcript.ContactID, message |-> k,
      text |-> transcript.Messages[k]]]

RECURSIVE Listed(_)
\* the elements of a finite set in a list
Listed(S) ==
  IF S = {} THEN <<>>
  ELSE LET x == CHOOSE y \in S : TRUE IN <<x>> \o Listed(S \ {x})

\* list(record.keys())
keys(record) == Listed(DOMAIN record)

\* the keys whose values are str: isinstance(record, str)
StrKeys == {"text", "label"}

\* a string with every '|' removed
replace(string) == SelectSeq(string, LAMBDA char : char # "|")

\* [[message[key] for key in columns] for message in messages], then the
\* loop that removes '|' from the values that are strings
SanitizedLoadData(messages, columns) ==
  [i \in DOMAIN messages |->
     [j \in DOMAIN columns |->
        IF columns[j] \in StrKeys THEN replace(messages[i][columns[j]])
        ELSE messages[i][columns[j]]]]

\* the row of a relation postgrez.load makes of a list of values
Row(columns, values) ==
  [key \in Range(columns) |->
     values[CHOOSE j \in DOMAIN columns : columns[j] = key]]

\* what a call of postgrez.load was handed for one row: the table, the
\* columns, the number of values and the values that are strings
Handed(table_name, columns, values) ==
  [table_name |-> table_name,
   columns |-> columns,
   values |-> Len(values),
   strings |-> {values[j] : j \in {n \in DOMAIN values \cap DOMAIN columns :
                                     columns[n] \in StrKeys}}]

\* the rows parse_transcript loads into transcripts for a transcript
TranscriptRows(transcript) ==
  LET messages  == Messages(transcript)
      columns   == keys(messages[1])
      load_data == SanitizedLoadData(messages, columns)
  IN  {Row(columns, load_data[i]) : i \in DOMAIN load_data}

\* one turn of main's loop: parse_transcript(transcript_file)
ParseTranscript(transcript_file) ==
  /\ pc = "load_transcripts"
  /\ transcript_file \in transcripts_to_load
  /\ LET messages == Messages(disk[transcript_file])
     IN  IF messages = <<>>
         THEN \* messages[0] raises IndexError
              /\ pc' = "raised"
              /\ UNCHANGED <<transcripts, loads, handed, processed,
                             transcripts_to_load>>
         ELSE /\ transcripts' =
                   transcripts (+) SetToBag(TranscriptRows(disk[transcript_file]))
              /\ LET columns   == keys(messages[1])
                      load_data == SanitizedLoadData(messages, columns)
                 IN  handed' = handed \cup
                       {Handed("transcripts", columns, load_data[i]) :
                          i \in DOMAIN load_data}
              /\ loads' = loads (+) SetToBag({transcript_file})
              /\ processed' = processed \cup {transcript_file}
              /\ transcripts_to_load' = transcripts_to_load \ {transcript_file}
              /\ pc' = IF transcripts_to_load' = {} THEN "enhanced_transcripts"
                       ELSE "load_transcripts"
  /\ UNCHANGED <<disk, contacts, enhanced, mainVars, dcVars, dtVars, enhVars,
                 seen_pending, requested, discovered, enhanced_seen, written, fetched>>

(***************************************************************************)
(* enhanced_transcripts: one chain of five delayed tasks per contact_id,   *)
(* computed by dask's threaded scheduler with num_workers=20.  The         *)
(* scheduler thread fires ready tasks while a worker is free, then takes   *)
(* results from its queue one at a time; a failed result is raised out of  *)
(* compute and nothing more is fired.  A call of enhanced_transcripts on   *)
(* its own runs the threads step by step; inside main the compute call is  *)
(* one step with the outcomes the threads can produce: the rows of any     *)
(* set of chains are loaded, and compute returns when that is all of them  *)
(* and raises otherwise.                                                   *)
(***************************************************************************)
\* the steps of a chain: load_transcripts_df, run_df_transforms,
\* run_meta_df_transforms, replace_nans, load_enhanced_transcript
ChainSteps == 5

\* the discovery query without its NOT IN condition
InTranscripts == {record.contact_id : record \in BagToSet(transcripts)}

\* SELECT contact_id FROM transcripts WHERE contact_id NOT IN
\* (SELECT contact_id FROM enhanced_transcripts) GROUP BY 1
NotEnhanced ==
  {record.contact_id : record \in BagToSet(transcripts)} \ BagToSet(enhanced)

Running == {i \in DOMAIN chain : chain[i].state \in {"running", "ok", "failed"}}

CanFire ==
  /\ \E i \in DOMAIN chain : chain[i].state = "waiting"
  /\ Cardinality(Running) < NumWorkers

\* the discovery query and the loop building the delayed chains
BuildChains ==
  /\ pc = "enhanced_transcripts"
  /\ to_load' = Sorted(NotEnhanced)
  /\ chain' = [i \in 1..Cardinality(NotEnhanced) |->
                 [step |-> 1, state |-> "waiting",
                  value |-> <<Sorted(NotEnhanced)[i]>>]]
  /\ queue' = <<>>
  /\ enhanced_seen' = enhanced
  /\ pc' = IF NotEnhanced = {} THEN "returned" ELSE "compute"
  /\ UNCHANGED <<disk, dbVars, mainVars, dcVars, dtVars, tlVars, loads, handed,
                 processed, seen_pending, requested, discovered, written, fetched>>

\* the scheduler hands a ready task to a free worker
FireTask(i) ==
  /\ mode = "enhanced_transcripts"
  /\ pc = "compute"
  /\ CanFire
  /\ chain[i].state = "waiting"
  /\ chain' = [chain EXCEPT ![i].state = "running"]
  /\ UNCHANGED <<disk, dbVars, pc, mainVars, dcVars, dtVars, tlVars, to_load,
                 queue, histVars>>

\* load_enhanced_transcript(contact_id, summary): one row
load_enhanced_transcript(rel, contact_id) == rel (+) SetToBag({contact_id})

\* the summary the "transcript_summary" transforms fold the transcripts
\* rows of a contact into: the number of its messages and a label, a
\* string; the label of contacts 2 and 12 holds the character '|'
Summary(contact_id) ==
  [messages |-> Cardinality({record \in BagToSet(transcripts) :
                               record.contact_id = contact_id}),
   label |-> IF contact_id \in {2, 12} THEN <<"a", "|", "b">>
             ELSE <<"o", "k">>]

\* what load_enhanced_transcript hands to postgrez.load:
\* columns = ['contact_id'] + list(summary.keys()) and the one row
\* [contact_id] + [summary[key] for key in columns]
HandedSummary(contact_id, summary) ==
  LET columns   == keys(summary)
      load_data == <<contact_id>> \o [j \in DOMAIN columns |-> summary[columns[j]]]
  IN  Handed("enhanced_transcripts", <<"contact_id">> \o columns, load_data)

\* the functions of the delayed tasks of a chain, in the order of the loop
StepNames ==
  <<"load_transcripts_df", "run_df_transforms", "run_meta_df_transforms",
    "replace_nans", "load_enhanced_transcript">>

\* what the task of a step returns for its argument: the argument with the
\* function applied to it
StepOutput(step, argument) == Append(argument, StepNames[step])

\* a worker thread runs the task of chain i on the value the chain holds
\* (the [contact_id] of the first task, the result of the task before for
\* the others); the task returns or raises
RunTask(i, ok) ==
  /\ mode = "enhanced_transcripts"
  /\ pc \in {"compute", "raised"}
  /\ i \in DOMAIN chain
  /\ chain[i].state = "running"
  /\ chain' = [chain EXCEPT
                 ![i].state = IF ok THEN "ok" ELSE "failed",
                 ![i].value = IF ok THEN StepOutput(chain[i].step, @) ELSE @]
  /\ enhanced' = IF ok /\ chain[i].step = ChainSteps
                 THEN load_enhanced_transcript(enhanced, to_load[i])
                 ELSE enhanced
  /\ handed' = IF ok /\ chain[i].step = ChainSteps
               THEN handed \cup {HandedSummary(to_load[i], Summary(to_load[i]))}
               ELSE handed
  /\ queue' = Append(queue, i)
  /\ UNCHANGED <<disk, contacts, transcripts, pc, mainVars, dcVars, dtVars,
                 tlVars, to_load, loads, processed, seen_pending, requested,
                 discovered, enhanced_seen, written, fetched>>

\* the scheduler passing over the task that waited for the result
FinishedSkipping(c) ==
  IF c.step + 1 < ChainSteps
  THEN [c EXCEPT !.step = c.step + 2, !.state = "running"]
  ELSE [c EXCEPT !.state = "done"]

\* the chain once the scheduler has taken the result of its task: the
\* task of the next step, which waited for the result, runs on it
Finished(c) ==
  IF c.step < ChainSteps
  THEN [c EXCEPT !.step = c.step + 1, !.state = "running"]
  ELSE [c EXCEPT !.state = "done"]

\* the scheduler takes a result: it raises a failure, else fires the task
\* that waited for the result; compute returns when nothing is left to run
TakeResult ==
  /\ mode = "enhanced_transcripts"
  /\ pc = "compute"
  /\ ~CanFire
  /\ queue # <<>>
  /\ queue' = Tail(queue)
  /\ LET i == Head(queue)
     IN  IF chain[i].state = "failed"
         THEN /\ pc' = "raised"
              /\ UNCHANGED chain
         ELSE /\ chain' = [chain EXCEPT ![i] = Finished(chain[i])]
              /\ pc' = IF \A j \in DOMAIN chain : chain'[j].state = "done"
                       THEN "returned" ELSE "compute"
  /\ UNCHANGED <<disk, dbVars, mainVars, dcVars, dtVars, tlVars, to_load,
                 histVars>>

\* compute(*delayeds, scheduler='threads', num_workers=20) as main sees it
Compute ==
  /\ mode = "main"
  /\ pc = "compute"
  /\ \E loaded \in SUBSET Range(to_load) :
       /\ enhanced' = enhanced (+) SetToBag(loaded)
       /\ handed' = handed \cup
            {HandedSummary(contact_id, Summary(contact_id)) :
               contact_id \in loaded}
       /\ pc' = IF loaded = Range(to_load) THEN "returned" ELSE "raised"
  /\ UNCHANGED <<disk, contacts, transcripts, mainVars, dcVars, dtVars, tlVars,
                 enhVars, loads, processed, seen_pending, requested,
                 discovered, enhanced_seen, written, fetched>>

(***************************************************************************)
(* main(interaction_type, start_date, end_date), and a crash of the        *)
(* process between two steps.                                              *)
(***************************************************************************)
\* the locals of a new call
ResetLocals ==
  /\ contacts_to_load' = {}
  /\ contact_ids' = <<>>
  /\ chunks' = <<>>
  /\ ci' = 1
  /\ received' = <<>>
  /\ si' = 0
  /\ transcripts_to_load' = {}
  /\ to_load' = <<>>
  /\ chain' = <<>>
  /\ queue' = <<>>
  /\ seen_pending' = {}
  /\ requested' = <<>>
  /\ discovered' = {}
  /\ enhanced_seen' = EmptyBag
  /\ written' = {}
  /\ fetched' = <<>>

OptionalDates == {None} \cup {<<day>> : day \in Days}

\* the defaults taken when either date is missing
DefaultedEither(start_date, end_date) == start_date = None \/ end_date = None

\* if start_date is None and end_date is None: both become yesterday
Defaulted(start_date, end_date) == start_date = None /\ end_date = None

\* main up to its call of download_contacts; yesterday is the day before
\* the clock's today
Main(interaction_type, start_date, end_date, yesterday) ==
  /\ Stopped
  /\ runs < MaxRuns
  /\ runs' = runs + 1
  /\ mode' = "main"
  /\ ResetLocals
  /\ LET start == IF Defaulted(start_date, end_date)
                  THEN <<yesterday>> ELSE start_date
         end   == IF Defaulted(start_date, end_date)
                  THEN <<yesterday>> ELSE end_date
     IN  /\ args' = [interaction_type |-> interaction_type,
                     start_date |-> start, end_date |-> end]
         /\ IF start = None \/ end = None
            THEN \* "Provide both start_date and end_date. Exiting.."
                 /\ pc' = "usage"
                 /\ date_range' = <<>>
            ELSE /\ pc' = "download_contacts"
                 /\ date_range' = generate_date_range(start, end)
  /\ UNCHANGED <<disk, dbVars, loads, handed, processed>>

\* the process dies between two steps
Crash ==
  /\ ~Stopped
  /\ pc' = "crashed"
  /\ UNCHANGED <<disk, dbVars, mainVars, dcVars, dtVars, tlVars, enhVars,
                 histVars>>

Next ==
  \/ \E interaction_type \in InteractionTypes, yesterday \in Days :
       \E start_date \in OptionalDates, end_date \in OptionalDates :
         Main(interaction_type, start_date, end_date, yesterday)
  \/ DownloadContactsDay
  \/ GetContactsToLoad
  \/ \E contact_file \in contacts_to_load : ParseContactsFile(contact_file)
  \/ DiscoverContactIds
  \/ GetRecordingsChunk
  \/ SaveTranscript
  \/ UpdateContacts
  \/ GetTranscriptsToLoad
  \/ \E transcript_file \in transcripts_to_load :
       ParseTranscript(transcript_file)
  \/ BuildChains
  \/ Compute
  \/ Crash

Spec == Init /\ [][Next]_vars

(***************************************************************************)
(* Properties of main over sequential runs, checked under Spec.            *)
(***************************************************************************)
\* C1: over sequential runs of main no artifact on disk is handed to the
\* bulk load more than once: once a run has loaded it, no later run loads
\* it again.
C1_NoLaterRunLoadsAgain ==
  \A f \in DOMAIN disk : CopiesIn(f, loads) <= 1

\* C13: no string value handed to the bulk load for a row of transcripts
\* or of enhanced_transcripts holds the character '|', and each row
\* handed over has as many values as the call names columns.
C13_NoDelimiterHandedOver ==
  \A row \in handed :
    /\ row.values = Len(row.columns)
    /\ \A string \in row.strings : "|" \notin Range(string)

\* C13 for the rows of transcripts alone
TranscriptRowsSanitized ==
  \A row \in handed :
    /\ row.values = Len(row.columns)
    /\ row.table_name = "transcripts" =>
         \A string \in row.strings : "|" \notin Range(string)

\* C14: empty input is a no-op and no error at each stage: the step of
\* download_transcripts that finds no identifier to process, the step of
\* parse_contacts_file on an artifact of zero records and the step of
\* parse_transcript on a transcript of zero message rows each return
\* normally, hand nothing to the bulk load and change no relation.
C14_EmptyInputIsNoOp ==
  [][/\ (DiscoverContactIds /\ NotDownloaded = {}) =>
          /\ pc' = AfterDownloadTranscripts
          /\ UNCHANGED <<dbVars, loads, handed, requested>>
     /\ \A contact_file \in contacts_to_load :
          (ParseContactsFile(contact_file) /\ disk[contact_file] = <<>>) =>
            /\ pc' # "raised"
            /\ UNCHANGED <<dbVars, loads, handed>>
     /\ \A transcript_file \in transcripts_to_load :
          (/\ ParseTranscript(transcript_file)
           /\ Messages(disk[transcript_file]) = <<>>) =>
            /\ pc' # "raised"
            /\ UNCHANGED <<dbVars, loads, handed>>]_vars

\* C15: a call of main with exactly one of start_date and end_date given
\* ends as a usage error at once: it asks the service nothing (no
\* get_contacts window, no get_recordings list), writes no artifact, hands
\* nothing to the bulk load and changes no row; the step after it is a
\* new call of main.
C15_UsageErrorBeforeAnyStage ==
  [][/\ \A interaction_type \in InteractionTypes, yesterday \in Days :
          \A start_date \in OptionalDates, end_date \in OptionalDates :
            (/\ Main(interaction_type, start_date, end_date, yesterday)
             /\ (start_date = None) # (end_date = None)) =>
              /\ pc' = "usage"
              /\ UNCHANGED <<disk, dbVars, loads, handed>>
              /\ fetched' = <<>>
              /\ requested' = <<>>
              /\ written' = {}
     /\ pc = "usage" => runs' = runs + 1]_vars

\* a usage error after a run that wrote artifacts and loaded rows
C15_Witness ==
  /\ pc = "usage"
  /\ (args.start_date = None) # (args.end_date = None)
  /\ disk # <<>>
  /\ contacts # {}
  /\ transcripts # EmptyBag

\* the days from the start date to the end date of the run, both included
SpannedDays == args.start_date[1]..args.end_date[1]

\* C17: once download_contacts has returned for a start and an end date
\* spanning N days, the run has made N calls of get_contacts, the i-th for
\* the window from 00:00:00.000 to 23:59:59.999 of the i-th day, and has
\* written N distinct artifacts, one named after each day; the window of
\* a day ends one millisecond before the window of the next day starts,
\* so no two windows overlap or share an instant.  While download_contacts
\* runs, the calls made are those of the days already taken.
C17_OneWindowPerDay ==
  (mode = "main" /\ pc \notin {"idle", "usage"}) =>
    LET N == Cardinality(SpannedDays)
    IN  /\ Len(fetched) + Len(date_range) = N
        /\ \A i \in DOMAIN fetched :
             LET day == args.start_date[1] + i - 1
             IN  /\ fetched[i].interaction_type = args.interaction_type
                 /\ fetched[i].start_time = day * MsPerDay
                 /\ fetched[i].end_time = (day + 1) * MsPerDay - 1
                 /\ ContactsFile(args.interaction_type, day) \in written
                 /\ ContactsFile(args.interaction_type, day) \in DOMAIN disk
        /\ \A i, j \in DOMAIN fetched :
             i < j => fetched[i].end_time < fetched[j].start_time
        /\ Cardinality({f \in written : Matches("contacts_reg", f)})
             = Len(fetched)
        /\ pc \notin {"download_contacts", "crashed"} => Len(fetched) = N

\* download_contacts has returned after the calls for two days
C17_Witness ==
  /\ pc = "load_contacts"
  /\ Len(fetched) = 2
  /\ fetched[1].end_time + 1 = fetched[2].start_time

\* the contacts artifacts of the directory
ContactsArtifacts == search_path(disk, "contacts_reg")

\* record i of artifact f has a row in contacts whose load_file is f
HasRow(f, i) ==
  \E record \in contacts :
    /\ record.load_file = f
    /\ record.contact_id = disk[f][i].ContactID

\* the rows of contacts loaded from artifact f, as they were loaded
RowsOf(f) ==
  {[record EXCEPT !.transcript_downloaded = FALSE] :
     record \in {row \in contacts : row.load_file = f}}

\* C19 as claimed: when a run of main returns, each record of each
\* contacts artifact on disk has a row in contacts with the artifact's
\* name as load_file.
C19_ContactsReflectDisk ==
  (mode = "main" /\ pc = "returned") =>
    \A f \in ContactsArtifacts : \A i \in DOMAIN disk[f] : HasRow(f, i)

\* C19 as amended: when a run of main returns, each contacts artifact on
\* disk that is not empty has been loaded exactly once, and the rows of
\* contacts that carry its name are the records of one answer of
\* get_contacts for its window, the one the artifact held when it was
\* loaded.
C19_ContactsReflectLoadedContent ==
  (mode = "main" /\ pc = "returned") =>
    \A f \in ContactsArtifacts :
      disk[f] # <<>> =>
        /\ CopiesIn(f, loads) = 1
        /\ \E contact_data \in GetContacts(f.type, f.date) :
             RowsOf(f) = {ContactRow(contact_data[i], f, FALSE) :
                            i \in DOMAIN contact_data}

\* a run returned after its re-fetch of a day overwrote a loaded artifact
\* with an answer holding one more contact, which has no row
C19_Witness ==
  /\ mode = "main"
  /\ pc = "returned"
  /\ \E f \in ContactsArtifacts :
       /\ CopiesIn(f, loads) = 1
       /\ \E i \in DOMAIN disk[f] : ~HasRow(f, i)

\* the identifiers the run has passed to get_recordings
RequestedIds == UNION {Range(requested[k]) : k \in DOMAIN requested}

\* C6: every identifier main passes to get_recordings is the contact_id
\* of a row the contacts relation held at the discovery query, with an
\* agent_id and with no marker set; when a transcript is requested, every
\* contact file the run's reconciliation returned has been through its
\* load step, and the interaction type is IM.
C6_OnlyKnownUnmarkedRequested ==
  /\ \A id \in RequestedIds :
       /\ \E record \in discovered :
            /\ record.contact_id = id
            /\ record.agent_id # NULL
       /\ \A record \in discovered :
            record.contact_id = id => ~record.transcript_downloaded
  /\ requested # <<>> =>
       /\ contacts_to_load = {}
       /\ {f \in seen_pending : Matches("contacts_reg", f)} \subseteq processed
       /\ args.interaction_type = "IM"

\* a second run requests transcripts while the relation holds rows an
\* earlier run marked
C6_Witness ==
  /\ runs = 2
  /\ requested # <<>>
  /\ \E record \in discovered : record.transcript_downloaded
  /\ \E record \in discovered : record.agent_id = NULL

\* C7: an artifact whose load step returned normally is absent from the
\* result of every later reconciliation.
C7_ProcessedNotPendingAgain ==
  [][/\ GetContactsToLoad => contacts_to_load' \cap processed = {}
     /\ GetTranscriptsToLoad => transcripts_to_load' \cap processed = {}]_vars

\* C8: a call of a reconciler returns exactly the files present in the
\* directory and matching its pattern whose identifier (the load_file, the
\* contact_id the name is formatted from) no persisted row carries; the
\* call changes neither the directory nor a relation, and a second call
\* right after it returns the same set.
C8_ReconcilersExactDifference ==
  [][/\ GetContactsToLoad =>
          /\ contacts_to_load' =
               {f \in DOMAIN disk :
                  /\ Matches("contacts_reg", f)
                  /\ \A record \in contacts : record.load_file # f}
          /\ get_contacts_to_load' = contacts_to_load'
          /\ disk' = disk
          /\ dbVars' = dbVars
     /\ GetTranscriptsToLoad =>
          /\ transcripts_to_load' =
               {f \in DOMAIN disk :
                  /\ Matches("transcripts_reg", f)
                  /\ \A record \in BagToSet(transcripts) :
                       f # TranscriptFile(record.contact_id)}
          /\ get_transcripts_to_load' = transcripts_to_load'
          /\ disk' = disk
          /\ dbVars' = dbVars]_vars

\* the transcripts reconciler has just returned a pending artifact and
\* left out an artifact of the directory that is loaded, while a loaded
\* contact file is on disk too
C8_Witness ==
  /\ pc = "load_transcripts"
  /\ transcripts_to_load = get_transcripts_to_load
  /\ transcripts_to_load # {}
  /\ search_path(disk, "transcripts_reg") \ transcripts_to_load # {}
  /\ search_path(disk, "contacts_reg") \ get_contacts_to_load # {}

(***************************************************************************)
(* SpecDT: one call download_transcripts() on a contacts relation that an  *)
(* earlier run loaded from one contact file of NumContactsDT records, the  *)
(* last of them without an agent.  Earlier calls may have downloaded the   *)
(* transcripts of the first contacts (marked), an earlier call may have    *)
(* crashed after writing the first artifacts of its chunk (leftover), and  *)
(* one contact of an older file may be downloaded already (older).         *)
(***************************************************************************)
BigFile == ContactsFile("IM", 1)
OldFile == ContactsFile("IM", 0)

BigContacts ==
  [i \in 1..NumContactsDT |->
     Contact(i, IF i = NumContactsDT THEN NULL ELSE "a7")]

\* the numbers of contacts earlier calls may have marked: none, one, one
\* chunk, one more, all with an agent but one, all of them
MarkedBefore ==
  {0, 1, ChunkSize, ChunkSize + 1, NumContactsDT - 2, NumContactsDT - 1}

InitDT ==
  /\ \E marked \in MarkedBefore, leftover \in {0, 3}, older \in BOOLEAN :
       /\ disk = [f \in {BigFile}
                       \cup {TranscriptFile(i) :
                               i \in 1..(IF marked + leftover < NumContactsDT
                                         THEN marked + leftover
                                         ELSE NumContactsDT - 1)}
                       \cup (IF older THEN {OldFile, TranscriptFile(100)} ELSE {})
                  |-> IF f = BigFile THEN BigContacts
                      ELSE IF f = OldFile THEN <<Contact(100, "a7")>>
                      ELSE Recording(ParseInt(f.digits))]
       /\ contacts = {ContactRow(BigContacts[i], BigFile, i <= marked) :
                        i \in 1..NumContactsDT}
                     \cup (IF older
                           THEN {ContactRow(Contact(100, "a7"), OldFile, TRUE)}
                           ELSE {})
       /\ loads = SetToBag({BigFile} \cup (IF older THEN {OldFile} ELSE {}))
       /\ handed = {}
       /\ processed = {BigFile} \cup (IF older THEN {OldFile} ELSE {})
  /\ transcripts = EmptyBag
  /\ enhanced = EmptyBag
  /\ pc = "download_transcripts"
  /\ mode = "download_transcripts"
  /\ runs = 1
  /\ args = [interaction_type |-> "IM", start_date |-> None, end_date |-> None]
  /\ InitLocals

NextDT ==
  \/ DiscoverContactIds
  \/ GetRecordingsChunk
  \/ SaveTranscript
  \/ UpdateContacts
  \/ Crash

SpecDT == InitDT /\ [][NextDT]_vars

(***************************************************************************)
(* Properties of download_transcripts, checked under SpecDT.               *)
(***************************************************************************)
ChunkFiles(k) == {TranscriptFile(id) : id \in Range(chunks[k])}
ChunkRows(k) == {record \in contacts : record.contact_id \in Range(chunks[k])}
NoneMarked(k) == \A record \in ChunkRows(k) : ~record.transcript_downloaded
AllMarked(k) == \A record \in ChunkRows(k) : record.transcript_downloaded

\* the rows whose marker this call of download_transcripts set
MarkedByCall ==
  {record \in contacts :
     /\ record.transcript_downloaded
     /\ [record EXCEPT !.transcript_downloaded = FALSE] \in discovered}

\* C2: in every state of a call of download_transcripts, the states a
\* crash or a raised error leaves included, each contact whose marker the
\* call has set to TRUE has its artifact "{contact_id}_data.txt" written
\* by the call and present in the output directory.
C2_MarkerOnlyAfterArtifact ==
  \A record \in MarkedByCall :
    /\ TranscriptFile(record.contact_id) \in written
    /\ TranscriptFile(record.contact_id) \in DOMAIN disk

\* a crash after the call marked one chunk and before it marked the next
C2_Witness ==
  /\ pc = "crashed"
  /\ MarkedByCall # {}
  /\ ci \in DOMAIN chunks
  /\ NoneMarked(ci)

\* C3: when get_recordings returns fewer transcripts than the chunk has
\* identifiers, download_transcripts raises (and stays raised), no
\* identifier of that chunk is marked, that chunk is the last one
\* requested, and every earlier chunk keeps its markers.
C3_IncompleteChunkRaises ==
  (requested # <<>> /\ Len(received) < Len(requested[Len(requested)])) =>
    /\ pc = "raised"
    /\ requested[Len(requested)] = chunks[ci]
    /\ NoneMarked(ci)
    /\ Len(requested) = ci
    /\ \A k \in 1..(ci - 1) : AllMarked(k)

\* the second of three chunks came back incomplete
C3_Witness ==
  /\ pc = "raised"
  /\ 1 < ci
  /\ ci < Len(chunks)
  /\ Len(received) < Len(chunks[ci])

\* C4: artifacts are written and markers set for a chunk only when the
\* number of transcripts returned equals the number of identifiers asked.
C4_AcceptedOnlyOnEqualCount ==
  pc \in {"save_transcripts", "update_contacts"} =>
    Len(received) = Len(chunks[ci])

\* all artifacts of the chunk are written and all its identifiers marked
FullyDone(k) == ChunkFiles(k) \subseteq DOMAIN disk /\ AllMarked(k)

\* the call wrote no artifact of the chunk and none of its identifiers is
\* marked
FullyUndone(k) == ChunkFiles(k) \cap written = {} /\ NoneMarked(k)

\* C5 as claimed: wherever the call stops (return, raised error, crash),
\* each chunk is fully done or fully undone.
C5_NoChunkHalfDone ==
  Stopped => \A k \in DOMAIN chunks : FullyDone(k) \/ FullyUndone(k)

\* C5 as amended: after a return or a raised error each chunk is fully
\* done or fully undone; after a crash the same holds of every chunk but
\* the one in progress, which may have artifacts written and has none of
\* its identifiers marked.
C5_HalfDoneOnlyByCrash ==
  Stopped =>
    \A k \in DOMAIN chunks :
      \/ FullyDone(k)
      \/ FullyUndone(k)
      \/ pc = "crashed" /\ k = ci /\ NoneMarked(k)

\* a crash in the second chunk, some of its artifacts written
C5_Witness ==
  /\ pc = "crashed"
  /\ 1 < ci
  /\ ci \in DOMAIN chunks
  /\ ChunkFiles(ci) \cap written # {}
  /\ ~(ChunkFiles(ci) \subseteq written)

\* C18: every artifact "{contact_id}_data.txt" the call has written holds
\* the transcript whose own ContactID is that contact_id, whatever the
\* order of the transcripts get_recordings returned.
C18_ArtifactHoldsOwnTranscript ==
  \A f \in written :
    Matches("transcripts_reg", f) => disk[f].ContactID = ParseInt(f.digits)

RECURSIVE Flat(_)
\* the concatenation of a list of lists
Flat(lists) == IF lists = <<>> THEN <<>> ELSE Head(lists) \o Flat(Tail(lists))

\* C16: the chunks of a call of download_transcripts are consecutive
\* slices of the list of identifiers of 20 each, the last one of 1 to 20,
\* which put end to end give the list; the calls of get_recordings made
\* so far are for the first chunks, one call a chunk in order; and when
\* the call returns (no chunk was incomplete) it has made one call per
\* chunk, ceil(L/20) for L identifiers, none for an empty list.
C16_OneCallPerChunk ==
  LET L == Len(contact_ids)
  IN  /\ Flat(chunks) = contact_ids
      /\ \A k \in DOMAIN chunks :
           /\ Len(chunks[k]) \in 1..ChunkSize
           /\ k < Len(chunks) => Len(chunks[k]) = ChunkSize
      /\ Len(requested) <= Len(chunks)
      /\ \A k \in DOMAIN requested : requested[k] = chunks[k]
      /\ pc = "returned" =>
           /\ Len(requested) = (L + ChunkSize - 1) \div ChunkSize
           /\ L = 0 => requested = <<>>

\* the call returned after three calls of get_recordings, the last one
\* for a chunk of a single identifier
C16_Witness ==
  /\ pc = "returned"
  /\ Len(requested) = 3
  /\ Len(requested[3]) = 1
  /\ Len(contact_ids) = 2 * ChunkSize + 1

\* the call returned without a call of get_recordings: nothing to process
NothingToProcess ==
  /\ pc = "returned"
  /\ contact_ids = <<>>
  /\ requested = <<>>
  /\ \E record \in contacts : record.transcript_downloaded

(***************************************************************************)
(* SpecEnh: one call enhanced_transcripts() on a transcripts relation      *)
(* holding the messages of some of the contacts 1..NumContactsEnh, some    *)
(* of them enhanced by an earlier call.                                    *)
(***************************************************************************)
InitEnh ==
  /\ \E loaded \in SUBSET (1..NumContactsEnh) :
       /\ transcripts =
            SetToBag(UNION {TranscriptRows(Recording(id)) : id \in loaded})
       /\ \E done \in SUBSET loaded : enhanced = SetToBag(done)
  /\ disk = <<>>
  /\ contacts = {}
  /\ loads = EmptyBag
  /\ handed = {}
  /\ processed = {}
  /\ pc = "enhanced_transcripts"
  /\ mode = "enhanced_transcripts"
  /\ runs = 1
  /\ args = [interaction_type |-> "IM", start_date |-> None, end_date |-> None]
  /\ InitLocals

NextEnh ==
  \/ BuildChains
  \/ \E i \in DOMAIN chain : FireTask(i)
  \/ \E i \in DOMAIN chain, ok \in BOOLEAN : RunTask(i, ok)
  \/ TakeResult
  \/ Crash

SpecEnh == InitEnh /\ [][NextEnh]_vars

(***************************************************************************)
(* Properties of enhanced_transcripts, checked under SpecEnh.              *)
(***************************************************************************)
\* the contact_ids present in transcripts and absent from
\* enhanced_transcripts at the discovery query
PendingAtDiscovery == InTranscripts \ BagToSet(enhanced_seen)

\* C9: when enhanced_transcripts returns (no chain failed), whatever the
\* interleaving of the worker threads, enhanced_transcripts holds its
\* rows of the discovery query and exactly one new row for each
\* contact_id then present in transcripts and absent from
\* enhanced_transcripts; no two chains carry the same contact_id, and in
\* no state of the call has a contact_id gained more than one row.
C9_OneRowPerPendingId ==
  /\ \A i, j \in DOMAIN to_load : to_load[i] = to_load[j] => i = j
  /\ chain # <<>> =>
       \A id \in BagToSet(enhanced) :
         CopiesIn(id, enhanced) <= CopiesIn(id, enhanced_seen) + 1
  /\ pc = "returned" =>
       enhanced = enhanced_seen (+) SetToBag(PendingAtDiscovery)

\* the call returned after running two chains or more, rows of an earlier
\* call being in enhanced_transcripts
C9_Witness ==
  /\ pc = "returned"
  /\ Len(to_load) >= 2
  /\ enhanced_seen # EmptyBag

\* the value a chain holds once its first steps steps have returned in
\* the order of the loop, each on the result of the one before
ResultOfSteps(contact_id, steps) ==
  <<contact_id>> \o SubSeq(StepNames, 1, steps)

\* C12: under every interleaving of the chains, the task a chain runs at
\* step k runs on the result of steps 1 .. k-1 of the same chain and
\* contact_id, applied in the order load rows, transcripts transform,
\* summary meta-transform, replace nulls, load summary; a task that
\* returned leaves the result of steps 1 .. k, a chain that waits has run
\* nothing, and no chain goes beyond its five steps.
C12_StepsInOrder ==
  \A i \in DOMAIN chain :
    /\ chain[i].step \in 1..ChainSteps
    /\ chain[i].state = "waiting" => chain[i].step = 1
    /\ chain[i].value =
         ResultOfSteps(to_load[i],
                       IF chain[i].state \in {"ok", "done"}
                       THEN chain[i].step ELSE chain[i].step - 1)

\* one chain runs its last step while another has just returned from its
\* second
C12_Witness ==
  \E i, j \in DOMAIN chain :
    /\ chain[i].step = ChainSteps
    /\ chain[i].state = "running"
    /\ chain[j].step = 2
    /\ chain[j].state = "ok"

\* the row of chain i is loaded
RowLoaded(i) ==
  CopiesIn(to_load[i], enhanced) > CopiesIn(to_load[i], enhanced_seen)

\* C10: once compute has raised the failure of a chain and every worker
\* has finished its task, each chain none of whose steps failed has
\* loaded its row.
C10_FailureIsolation ==
  (pc = "raised" /\ \A i \in DOMAIN chain : chain[i].state # "running") =>
    \A i \in DOMAIN chain : chain[i].state # "failed" => RowLoaded(i)

(***************************************************************************)
(* SpecPool: one call enhanced_transcripts() with more pending contact_ids *)
(* than the pool has workers.  The scheduler fires the ready chains in the *)
(* order of the list, and the task that finishes next is one of the Racing *)
(* oldest chains holding a worker.                                         *)
(***************************************************************************)
InitPool ==
  /\ transcripts =
       SetToBag(UNION {TranscriptRows(Recording(id)) :
                         id \in 1..NumContactsPool})
  /\ enhanced = EmptyBag
  /\ disk = <<>>
  /\ contacts = {}
  /\ loads = EmptyBag
  /\ handed = {}
  /\ processed = {}
  /\ pc = "enhanced_transcripts"
  /\ mode = "enhanced_transcripts"
  /\ runs = 1
  /\ args = [interaction_type |-> "IM", start_date |-> None, end_date |-> None]
  /\ InitLocals

\* the first chain of the list that is ready
FirstReady ==
  {i \in DOMAIN chain :
     /\ chain[i].state = "waiting"
     /\ \A j \in 1..(i - 1) : chain[j].state # "waiting"}

\* the chains whose running task may be the next to finish
Early ==
  {i \in DOMAIN chain :
     /\ chain[i].state = "running"
     /\ Cardinality(Running \cap 1..(i - 1)) < Racing}

NextPool ==
  \/ BuildChains
  \/ \E i \in FirstReady : FireTask(i)
  \/ \E i \in Early, ok \in BOOLEAN : RunTask(i, ok)
  \/ TakeResult
  \/ Crash

SpecPool == InitPool /\ [][NextPool]_vars

(***************************************************************************)
(* Properties of the worker pool, checked under SpecPool.                  *)
(***************************************************************************)
\* the chains a task of which is executing
Executing == {i \in DOMAIN chain : chain[i].state = "running"}

\* chain i has not executed any of its steps
NeverStarted(i) == chain[i].step = 1 /\ chain[i].state = "waiting"

\* C11: at no instant are more than 20 steps executing, and once compute
\* has stopped (it fires no task any more) no chain is left that never
\* executed: the chains that waited for a worker were run.
C11_PoolBoundAndAllRun ==
  /\ Cardinality(Executing) <= NumWorkers
  /\ pc \in {"returned", "raised"} =>
       \A i \in DOMAIN chain : ~NeverStarted(i)

\* at no instant do more than 20 chains hold a worker
PoolBound == Cardinality(Running) <= NumWorkers

\* the pool is full while a chain waits
PoolFull ==
  /\ Cardinality(Executing) = NumWorkers
  /\ \E i \in DOMAIN chain : NeverStarted(i)

=============================================================================
